---- MODULE Spec2Model ----
(***************************************************************************)
(* Model of eca/sessions.py: the name generator (name_parts / names), the  *)
(* SessionManager (generate_name, _new_session, activate), Session, the    *)
(* SessionCookie filter and the GenerateEvent POST handler.                *)
(*                                                                         *)
(* A string is modelled as the sequence of its tokens: a name produced by  *)
(* '-'.join is the sequence of its words with a "-" token between them.    *)
(* Each thread of the HTTP transport runs one call at a time; a call       *)
(* advances one shared-memory access per step.                             *)
(***************************************************************************)
EXTENDS Integers, Sequences, FiniteSets, TLC

\* ------------------------------------------------------------------ bounds
NThreads == 2
MaxCalls == 3
MaxTime == 1
NLetters == 2
NColours == 1
MaxStage == 1

Threads == 1..NThreads

\* ------------------------------------------------------- name generation
letters == <<"alpha", "beta", "gamma", "delta", "epsilon", "zeta", "eta",
             "theta", "iota", "kappa", "lambda", "mu", "nu", "xi", "omicron",
             "pi", "rho", "sigma", "tau", "upsilon", "phi", "chi", "psi",
             "omega">>

colours == <<"red", "orange", "yellow", "green", "blue", "violet">>

\* The vocabulary the model draws from: the first NLetters / NColours words.
ModelLetters == SubSeq(letters, 1, NLetters)

ModelColours == SubSeq(colours, 1, NColours)

\* random.shuffle(list): every reordering of the list is a possible outcome.
Shuffles(list) ==
    LET n == Len(list)
        perms == {p \in [1..n -> 1..n] : \A i, j \in 1..n : p[i] = p[j] => i = j}
    IN  {[i \in 1..n |-> list[p[i]]] : p \in perms}

\* '-'.join(parts): the words with a separator token between neighbours.
Join(parts) ==
    [i \in 1..(2 * Len(parts) - 1) |->
        IF i % 2 = 1 THEN parts[(i + 1) \div 2] ELSE "-"]

\* Mutant of PartsList: the letters lists come first and the colours last.
PartsListColourLast(ls, cs, nparts) ==
    [i \in 1..nparts |-> IF i = nparts THEN cs ELSE ls]

\* The parts list of name_parts(): [letters, colours, letters, letters, ...].
\* Every entry but the second is the one (aliased) letters list.
PartsList(ls, cs, nparts) == [i \in 1..nparts |-> IF i = 2 THEN cs ELSE ls]

RECURSIVE ProductSize(_)
ProductSize(pools) ==
    IF pools = <<>> THEN 1 ELSE Len(Head(pools)) * ProductSize(Tail(pools))

\* itertools.product(*pools): the k-th tuple (k from 0), last pool fastest.
RECURSIVE ProductAt(_, _)
ProductAt(pools, k) ==
    IF pools = <<>> THEN <<>>
    ELSE LET w == ProductSize(Tail(pools))
         IN  <<Head(pools)[((k \div w) % Len(Head(pools))) + 1]>>
                 \o ProductAt(Tail(pools), k % w)

\* The module-level iterator `names` before its first next(): nothing has run.
NamesInit ==
    [started |-> FALSE, letters |-> ModelLetters, colours |-> ModelColours,
     nparts |-> 0, pools |-> <<>>, idx |-> 0, running |-> FALSE, dead |-> FALSE]

\* Mutant of StageExhausted: the chain leaves a product after its first tuple.
StageExhaustedEarly(g) == ~g.started \/ g.idx >= 1

\* Whether next(names) has to ask name_parts() for the next parts list.
StageExhausted(g) == ~g.started \/ g.idx >= ProductSize(g.pools)

\* The stage the generator is in (0: letter-colour), -1 before the first draw.
StageOf(g) == g.nparts - 2

\* Mutant of NamePartsStep: the letters list is not appended, so every stage
\* enumerates letter-colour again.
NamePartsStepNoAppend(g, ls, cs) ==
    [g EXCEPT !.started = TRUE, !.letters = ls, !.colours = cs, !.nparts = 2,
              !.pools = PartsList(ls, cs, 2), !.idx = 0, !.running = FALSE]

\* name_parts() resumed: both lists are shuffled in place, the letters list is
\* appended to parts (not on the first yield), and product(*parts) copies the
\* lists into its pools.
NamePartsStep(g, ls, cs) ==
    LET n == IF g.started THEN g.nparts + 1 ELSE 2
    IN  [g EXCEPT !.started = TRUE, !.letters = ls, !.colours = cs, !.nparts = n,
                  !.pools = PartsList(ls, cs, n), !.idx = 0, !.running = FALSE]

\* Mutant of NamesNext: the draw does not move the product on, as if two
\* callers could read the same position.
NamesNextNoAdvance(g) ==
    [gen |-> g, value |-> Join(ProductAt(g.pools, g.idx))]

\* next(names) on a generator that holds a product in progress.
NamesNext(g) ==
    [gen |-> [g EXCEPT !.idx = @ + 1], value |-> Join(ProductAt(g.pools, g.idx))]

\* ------------------------------------------------------------- the state
VARIABLES
    names,      \* the module-level iterator `names`
    sessions,   \* SessionManager.sessions: identifier -> Session object
    objs,       \* every Session object ever constructed, with its Context
    current,    \* the process-wide current context (0: none yet)
    now,        \* the reading of time.time()
    th,         \* per transport thread: the call it runs and its locals
    calls,      \* calls begun so far
    returned,   \* history: the values generate_name has returned, in order
    inserted,   \* history: the identifiers activate has inserted
    jar         \* the clients' cookie jar: Set-Cookie value -> Session served

vars == <<names, sessions, objs, current, now, th, calls, returned, inserted, jar>>

EmptyMap == [x \in {} |-> 0]

\* Values a client may put in the session cookie on its own: the name of a
\* stage-0 combination, and a value the generator never produces.
ForgedCookies == {Join(<<letters[1], colours[1]>>), <<"x">>}

\* The POST inputs: the content-length header and what the bytes read are.
PostInputs ==
    [len : {"absent", "int", "nonint"}, body : {"badutf8", "badjson", "array", "object"}]

Idle ==
    [pc |-> "idle", task |-> "none", cookie |-> <<>>, value |-> <<>>, obj |-> 0,
     created |-> FALSE, draws |-> 0, setCookie |-> <<>>, req |-> <<>>,
     mutated |-> FALSE, status |-> 0, raised |-> FALSE, clen |-> -1, sent |-> <<>>]

Init ==
    /\ names = NamesInit
    /\ sessions = EmptyMap
    /\ objs = <<>>
    /\ current = 0
    /\ now = 0
    /\ th = [t \in Threads |-> Idle]
    /\ calls = 0
    /\ returned = <<>>
    /\ inserted = {}
    /\ jar = EmptyMap

\* ------------------------------------------------------ cookie encoding
CookieSpecial == {" ", ";", ",", "\""}

\* SimpleCookie's value encoding: a value of legal characters is sent as it
\* is, any other is sent in double quotes.
CookieQuote(v) ==
    IF \A i \in 1..Len(v) : v[i] \notin CookieSpecial THEN v
    ELSE <<"\"">> \o v \o <<"\"">>

\* SimpleCookie's parsing of a cookie value sent back by the client.
CookieUnquote(cv) ==
    IF Len(cv) >= 2 /\ cv[1] = "\"" /\ cv[Len(cv)] = "\""
    THEN SubSeq(cv, 2, Len(cv) - 1) ELSE cv

\* ------------------------------------------------------- calls beginning
\* The transport gives a new call to the first thread that is free.
CanBegin(t) ==
    /\ th[t].pc = "idle"
    /\ \A u \in Threads : u < t => th[u].pc # "idle"
    /\ calls < MaxCalls

Begin(t, rec) ==
    /\ CanBegin(t)
    /\ th' = [th EXCEPT ![t] = rec]
    /\ calls' = calls + 1
    /\ UNCHANGED <<names, sessions, objs, current, now, returned, inserted, jar>>

\* The transport hands a request to the SessionCookie filter. The cookie is
\* absent, forged, or one a client received in a Set-Cookie header.
BeginRequest(t) ==
    \E c \in {<<>>} \cup {<<v>> : v \in ForgedCookies}
                    \cup {<<CookieUnquote(cv)>> : cv \in DOMAIN jar} :
        Begin(t, [Idle EXCEPT !.pc = "handle", !.task = "request", !.cookie = c])

\* A POST reaches the event handler of a server configured without the filter.
BeginPost(t) ==
    Begin(t, [Idle EXCEPT !.pc = "handle_POST", !.task = "post"])

\* A direct call of SessionManager.generate_name().
BeginGenerateName(t) ==
    Begin(t, [Idle EXCEPT !.pc = "gen_next", !.task = "generate_name"])

\* A direct call of SessionManager.activate(name).
BeginActivate(t) ==
    \E v \in ForgedCookies \cup {returned[i] : i \in 1..Len(returned)} :
        Begin(t, [Idle EXCEPT !.pc = "act_check", !.task = "activate", !.value = v])

\* Mutant of Handle: the request's cookie is not found, a name is always minted.
HandleAlwaysMint(t) ==
    /\ th[t].pc = "handle"
    /\ th' = [th EXCEPT ![t].pc = "gen_next"]
    /\ UNCHANGED <<names, sessions, objs, current, now, calls, returned, inserted, jar>>

\* --------------------------------------------------- SessionCookie.handle
\* lines 66-69, 80: the cookie decides between minting a name and using it.
Handle(t) ==
    /\ th[t].pc = "handle"
    /\ th' = [th EXCEPT ![t] =
                IF th[t].cookie = <<>> THEN [@ EXCEPT !.pc = "gen_next"]
                ELSE [@ EXCEPT !.pc = "act_check", !.value = th[t].cookie[1]]]
    /\ UNCHANGED <<names, sessions, objs, current, now, calls, returned, inserted, jar>>

\* ------------------------------------------- SessionManager.generate_name
\* lines 114, 116: result = next(names). A draw from the product in progress
\* is one step of the interpreter. When the product is exhausted (or not yet
\* made) the chain resumes the generator of parts lists, which runs Python
\* code: another thread may run before it yields. A next(names) made meanwhile
\* finds the generator already executing: it raises ValueError and the chain
\* drops its source, so every later next(names) raises StopIteration.
GenNext(t) ==
    /\ th[t].pc = "gen_next"
    /\ IF names.dead
       THEN /\ th' = [th EXCEPT ![t].pc = "done", ![t].raised = TRUE]
            /\ UNCHANGED names
       ELSE IF names.running
       THEN /\ th' = [th EXCEPT ![t].pc = "done", ![t].raised = TRUE]
            /\ names' = [names EXCEPT !.dead = TRUE]
       ELSE IF StageExhausted(names)
       THEN /\ StageOf(names) < MaxStage
            /\ names' = [names EXCEPT !.running = TRUE]
            /\ th' = [th EXCEPT ![t].pc = "gen_advance"]
       ELSE LET r == NamesNext(names)
            IN  /\ names' = r.gen
                /\ th' = [th EXCEPT ![t].pc = "gen_check", ![t].value = r.value,
                                    ![t].draws = @ + 1]
    /\ UNCHANGED <<sessions, objs, current, now, calls, returned, inserted, jar>>

\* lines 13-48: name_parts() shuffles and yields the next parts list, the
\* chain takes its product and the draw returns the product's first tuple.
GenAdvance(t) ==
    /\ th[t].pc = "gen_advance"
    /\ \E ls \in Shuffles(names.letters), cs \in Shuffles(names.colours) :
          LET r == NamesNext(NamePartsStep(names, ls, cs))
          IN  /\ names' = r.gen
              /\ th' = [th EXCEPT ![t].pc = "gen_check", ![t].value = r.value,
                                  ![t].draws = @ + 1]
    /\ UNCHANGED <<sessions, objs, current, now, calls, returned, inserted, jar>>

\* Mutant of GenCheck: the first draw is returned without the membership test.
GenCheckNoLoop(t) ==
    /\ th[t].pc = "gen_check"
    /\ th' = [th EXCEPT ![t].pc =
                IF th[t].task = "request" THEN "set_cookie" ELSE "done"]
    /\ returned' = Append(returned, th[t].value)
    /\ UNCHANGED <<names, sessions, objs, current, now, calls, inserted, jar>>

\* lines 115, 117: the loop test; a result that is a key is drawn again.
GenCheck(t) ==
    /\ th[t].pc = "gen_check"
    /\ IF th[t].value \in DOMAIN sessions
       THEN /\ th' = [th EXCEPT ![t].pc = "gen_next"]
            /\ UNCHANGED returned
       ELSE /\ th' = [th EXCEPT ![t].pc =
                        IF th[t].task = "request" THEN "set_cookie" ELSE "done"]
            /\ returned' = Append(returned, th[t].value)
    /\ UNCHANGED <<names, sessions, objs, current, now, calls, inserted, jar>>

\* Mutant of SetCookie: the minted name is used but no header is sent.
SetCookieSilent(t) ==
    /\ th[t].pc = "set_cookie"
    /\ th' = [th EXCEPT ![t].pc = "act_check"]
    /\ UNCHANGED <<names, sessions, objs, current, now, calls, returned, inserted, jar>>

\* lines 74-78: the new cookie, with path /, is sent as a Set-Cookie header.
SetCookie(t) ==
    /\ th[t].pc = "set_cookie"
    /\ th' = [th EXCEPT ![t].pc = "act_check",
                        ![t].setCookie = <<[value |-> CookieQuote(th[t].value),
                                            path |-> "/"]>>]
    /\ UNCHANGED <<names, sessions, objs, current, now, calls, returned, inserted, jar>>

\* Mutant of ActCheck: a Session is constructed whether or not the name is a key.
ActCheckAlways(t) ==
    /\ th[t].pc = "act_check"
    /\ th' = [th EXCEPT ![t].pc = "new_session"]
    /\ UNCHANGED <<names, sessions, objs, current, now, calls, returned, inserted, jar>>

\* ------------------------------------------------ SessionManager.activate
\* line 125: if name not in self.sessions.
ActCheck(t) ==
    /\ th[t].pc = "act_check"
    /\ th' = [th EXCEPT ![t].pc =
                IF th[t].value \notin DOMAIN sessions THEN "new_session"
                ELSE "act_lookup"]
    /\ UNCHANGED <<names, sessions, objs, current, now, calls, returned, inserted, jar>>

\* lines 119-122: Session(Context(name), time.time()), then context.start().
NewSession(t) ==
    /\ th[t].pc = "new_session"
    /\ objs' = Append(objs, [name |-> th[t].value, seen |-> now, started |-> 1])
    /\ th' = [th EXCEPT ![t].pc = "act_store", ![t].obj = Len(objs) + 1,
                        ![t].created = TRUE]
    /\ UNCHANGED <<names, sessions, current, now, calls, returned, inserted, jar>>

\* Mutant of StoreSession: the mapping is rebuilt from the new entry alone, so
\* the entries inserted by others are lost.
StoreSessionLost(map, name, obj) == (name :> obj)

\* line 126: self.sessions[name] = the new Session.
StoreSession(map, name, obj) == (name :> obj) @@ map

ActStore(t) ==
    /\ th[t].pc = "act_store"
    /\ sessions' = StoreSession(sessions, th[t].value, th[t].obj)
    /\ inserted' = inserted \cup {th[t].value}
    /\ th' = [th EXCEPT ![t].pc = "act_lookup",
                        ![t].mutated = @ \/ sessions' # sessions]
    /\ UNCHANGED <<names, objs, current, now, calls, returned, jar>>

\* line 127: self.sessions[name], the receiver of .activate().
ActLookup(t) ==
    /\ th[t].pc = "act_lookup"
    /\ th' = [th EXCEPT ![t].pc = "sess_seen", ![t].obj = sessions[th[t].value]]
    /\ UNCHANGED <<names, sessions, objs, current, now, calls, returned, inserted, jar>>

\* ---------------------------------------------------- Session.activate
\* line 95: self.seen = time.time().
SessSeen(t) ==
    /\ th[t].pc = "sess_seen"
    /\ objs' = [objs EXCEPT ![th[t].obj].seen = now]
    /\ th' = [th EXCEPT ![t].pc = "ctx_activate",
                        ![t].mutated = @ \/ objs' # objs]
    /\ UNCHANGED <<names, sessions, current, now, calls, returned, inserted, jar>>

\* context_activate(context): the context becomes the process-wide current one.
ContextActivate(ctx) == ctx

\* Mutant of CtxActivate: Session.activate returns without context_activate.
CtxActivateNoPointer(t) ==
    /\ th[t].pc = "ctx_activate"
    /\ th' = [th EXCEPT ![t].pc =
                IF th[t].task = "request" THEN "filter_done" ELSE "done"]
    /\ UNCHANGED <<names, sessions, objs, current, now, calls, returned, inserted, jar>>

\* Mutant of CtxActivate: a context is made current only while there is none.
CtxActivateFirstWins(t) ==
    /\ th[t].pc = "ctx_activate"
    /\ current' = IF current = 0 THEN th[t].obj ELSE current
    /\ th' = [th EXCEPT ![t].pc =
                            IF th[t].task = "request" THEN "filter_done" ELSE "done",
                        ![t].mutated = @ \/ current' # current]
    /\ UNCHANGED <<names, sessions, objs, now, calls, returned, inserted, jar>>

\* line 96: context_activate(self.context); activate() returns.
CtxActivate(t) ==
    /\ th[t].pc = "ctx_activate"
    /\ current' = ContextActivate(th[t].obj)
    /\ th' = [th EXCEPT ![t].pc =
                            IF th[t].task = "request" THEN "filter_done" ELSE "done",
                        ![t].mutated = @ \/ current' # current]
    /\ UNCHANGED <<names, sessions, objs, now, calls, returned, inserted, jar>>

\* The filter has returned: the transport runs the request's POST handler.
Pipeline(t) ==
    /\ th[t].pc = "filter_done"
    /\ th' = [th EXCEPT ![t].pc = "handle_POST"]
    /\ UNCHANGED <<names, sessions, objs, current, now, calls, returned, inserted, jar>>

\* ------------------------------------------------------------ handle_POST
\* data.decode('utf-8') then json.loads: what the bytes read decode to.
JsonLoads(body) ==
    CASE body = "badutf8" -> "ValueError"
      [] body = "badjson" -> "ValueError"
      [] body = "array" -> "list"
      [] body = "object" -> "dict"

\* Mutant of PostChecks: the isinstance test is missing, any JSON value passes.
PostChecksAnyJson(r) ==
    IF r.len = "absent" THEN [status |-> 411, raised |-> FALSE, go |-> FALSE]
    ELSE IF r.len = "nonint" THEN [status |-> 0, raised |-> TRUE, go |-> FALSE]
    ELSE IF JsonLoads(r.body) = "ValueError"
         THEN [status |-> 400, raised |-> FALSE, go |-> FALSE]
    ELSE [status |-> 0, raised |-> FALSE, go |-> TRUE]

\* lines 138-155: the checks made before the event is created. The result is
\* the status sent (0: none), whether an exception left the handler, and
\* whether the handler goes on to new_event.
PostChecks(r) ==
    IF r.len = "absent" THEN [status |-> 411, raised |-> FALSE, go |-> FALSE]
    ELSE IF r.len = "nonint" THEN [status |-> 0, raised |-> TRUE, go |-> FALSE]
    ELSE IF JsonLoads(r.body) = "ValueError"
         THEN [status |-> 400, raised |-> FALSE, go |-> FALSE]
    ELSE IF JsonLoads(r.body) # "dict"
         THEN [status |-> 400, raised |-> FALSE, go |-> FALSE]
    ELSE [status |-> 0, raised |-> FALSE, go |-> TRUE]

\* The request read by the handler is any of the POST inputs.
HandlePost(t) ==
    /\ th[t].pc = "handle_POST"
    /\ \E r \in PostInputs :
          LET c == PostChecks(r)
          IN  th' = [th EXCEPT ![t].pc = IF c.go THEN "new_event" ELSE "done",
                               ![t].req = <<r>>,
                               ![t].status = c.status, ![t].raised = c.raised]
    /\ UNCHANGED <<names, sessions, objs, current, now, calls, returned, inserted, jar>>

\* new_event(name, structured): the contexts the event is delivered to, given
\* the current context; none (NotImplementedError) when there is no current one.
NewEventTargets(cur) == IF cur = 0 THEN <<>> ELSE <<cur>>

\* lines 157-167: the event is created; 500 without a current context, else 202.
NewEvent(t) ==
    /\ th[t].pc = "new_event"
    /\ th' = [th EXCEPT ![t].pc = "done",
                        ![t].sent = NewEventTargets(current),
                        ![t].status = IF NewEventTargets(current) = <<>> THEN 500 ELSE 202,
                        ![t].clen = IF NewEventTargets(current) = <<>> THEN -1 ELSE 0]
    /\ UNCHANGED <<names, sessions, objs, current, now, calls, returned, inserted, jar>>

\* The call has returned; a response that carries Set-Cookie reaches the client.
Finish(t) ==
    /\ th[t].pc = "done"
    /\ jar' = IF th[t].task = "request" /\ th[t].setCookie # <<>>
              THEN (th[t].setCookie[1].value :> th[t].obj) @@ jar ELSE jar
    /\ th' = [th EXCEPT ![t] = Idle]
    /\ UNCHANGED <<names, sessions, objs, current, now, calls, returned, inserted>>

\* time.time() advances.
Tick ==
    /\ now < MaxTime
    /\ now' = now + 1
    /\ UNCHANGED <<names, sessions, objs, current, th, calls, returned, inserted, jar>>

\* ------------------------------------------------------- specifications
Step(t) ==
    \/ Handle(t) \/ GenNext(t) \/ GenAdvance(t) \/ GenCheck(t) \/ SetCookie(t)
    \/ ActCheck(t) \/ NewSession(t) \/ ActStore(t) \/ ActLookup(t)
    \/ SessSeen(t) \/ CtxActivate(t) \/ Pipeline(t)
    \/ HandlePost(t) \/ NewEvent(t) \/ Finish(t)

BeginCall(t) ==
    \/ BeginRequest(t) \/ BeginPost(t) \/ BeginGenerateName(t) \/ BeginActivate(t)

\* Requests are handled concurrently, their threads interleaved step by step.
\* No code reads Session.seen, so the clock is left out of this specification.
Next == \E t \in Threads : BeginRequest(t) \/ Step(t)

Spec == Init /\ [][Next]_vars

ActStep(t) ==
    \/ ActCheck(t) \/ NewSession(t) \/ ActStore(t) \/ ActLookup(t)
    \/ SessSeen(t) \/ CtxActivate(t) \/ Finish(t)

\* Concurrent calls of SessionManager.activate. As in Spec the clock is left
\* out: Session.seen is written and never read.
ActNext == \E t \in Threads : BeginActivate(t) \/ ActStep(t)

ActSpec == Init /\ [][ActNext]_vars

\* Concurrent calls of SessionManager.activate while time.time() advances.
ClockNext == Tick \/ ActNext

ClockSpec == Init /\ [][ClockNext]_vars

AllIdle == \A u \in Threads : th[u].pc = "idle"

\* Calls are made one at a time: a call begins only when no other is running.
SeqNext == Tick \/ \E t \in Threads : (AllIdle /\ BeginCall(t)) \/ Step(t)

SeqSpec == Init /\ [][SeqNext]_vars

\* ---------------------------------------------------------------- claims
\* The Session objects constructed for an identifier.
SessionsOf(n) == {i \in 1..Len(objs) : objs[i].name = n}

Returned == {returned[i] : i \in 1..Len(returned)}

\* The positions of a request whose filter has returned.
AfterFilter == {"filter_done", "handle_POST", "new_event", "done"}

\* The positions of an activate call that has made sure its name is a key.
AfterInsert == {"act_lookup", "sess_seen", "ctx_activate"} \cup AfterFilter

\* C1: for any interleaving of concurrent activate calls with the same new
\* identifier, exactly one Session, with one Context started once, is ever
\* constructed for it; none duplicates or replaces the first.
C1_OneSessionPerIdentifier ==
    \A i, j \in 1..Len(objs) :
        /\ objs[i].started = 1
        /\ objs[i].name = objs[j].name => i = j

\* C2: with activate calls made one after another, an identifier has exactly
\* one Session, constructed and started by the first call; every later call
\* finds that Session in the mapping and constructs nothing.
C2_SequentialActivateCreatesOnce ==
    /\ \A i \in 1..Len(objs) :
          /\ SessionsOf(objs[i].name) = {i}
          /\ objs[i].started = 1
    /\ \A n \in DOMAIN sessions : SessionsOf(n) = {sessions[n]}
    /\ \A t \in Threads :
          th[t].task \in {"activate", "request"} /\ th[t].pc \in AfterInsert \ {"act_lookup"}
              => th[t].obj = sessions[th[t].value]

\* A later activate call has returned: it found the Session of an earlier call.
C2_Witness ==
    \E t \in Threads :
        /\ th[t].task = "activate" /\ th[t].pc = "done"
        /\ ~th[t].created
        /\ th[t].obj = sessions[th[t].value]
        /\ SessionsOf(th[t].value) = {th[t].obj}

\* C3: the value generate_name returns is not a key of the mapping at the
\* time of the call, whatever keys clients have created with forged cookies.
C3_GeneratedNameIsFresh ==
    \A t \in Threads :
        \/ th[t].pc = "set_cookie"
        \/ th[t].pc = "done" /\ th[t].task = "generate_name"
        => th[t].value \notin DOMAIN sessions

\* generate_name has returned after discarding a draw that collided with a key
\* which a client created and the generator had never returned.
C3_Witness ==
    \E t \in Threads :
        /\ th[t].pc = "done" /\ th[t].task = "generate_name"
        /\ th[t].draws >= 2
        /\ \E n \in DOMAIN sessions : n \in ForgedCookies /\ n \notin Returned

\* C4: any two identifiers returned by generate_name are distinct, whether or
\* not they were activated, also across the stages of the generator.
C4_ReturnedNamesDistinct ==
    \A i, j \in 1..Len(returned) : returned[i] = returned[j] => i = j

\* Two returned names of different stages, the earlier one never activated.
C4_Witness ==
    \E i, j \in 1..Len(returned) :
        /\ i < j
        /\ Len(returned[i]) < Len(returned[j])
        /\ returned[i] \notin DOMAIN sessions

\* C5: a request that presents a Set-Cookie value emitted earlier resolves to
\* the Session created for the request that received it, and constructs no
\* Session, whatever requests were handled one at a time in between.
C5_CookieResolvesToSameSession ==
    \A cv \in DOMAIN jar :
        LET n == CookieUnquote(cv)
        IN  /\ n \in DOMAIN sessions
            /\ sessions[n] = jar[cv]
            /\ SessionsOf(n) = {jar[cv]}
            /\ \A t \in Threads :
                  /\ th[t].task = "request"
                  /\ th[t].cookie = <<n>>
                  /\ th[t].pc \in AfterFilter
                  => th[t].obj = jar[cv] /\ ~th[t].created /\ th[t].setCookie = <<>>

\* A follow-up request with an emitted cookie has been filtered, after another
\* session's request was handled in between.
C5_Witness ==
    \E t \in Threads, cv \in DOMAIN jar :
        /\ th[t].task = "request"
        /\ th[t].cookie = <<CookieUnquote(cv)>>
        /\ th[t].pc = "done"
        /\ th[t].obj = jar[cv]
        /\ Len(objs) >= 2
        /\ jar[cv] = 1

\* The status the ordered checks of the POST contract give an input.
ClaimedStatus(r, cur) ==
    IF r.len = "absent" THEN 411
    ELSE IF JsonLoads(r.body) = "ValueError" THEN 400
    ELSE IF JsonLoads(r.body) # "dict" THEN 400
    ELSE IF cur = 0 THEN 500
    ELSE 202

\* The calls that run the POST handler.
PostTasks == {"request", "post"}

\* C6: the status of every POST is the one of the first failing check (411,
\* 400, 400, 500), else 202 with content-length 0; the event is dispatched
\* exactly once with 202 and to no context otherwise.
C6_StatusByFirstFailingCheck ==
    \A t \in Threads :
        th[t].pc = "done" /\ th[t].task \in PostTasks
        => /\ th[t].status = ClaimedStatus(th[t].req[1], current)
           /\ th[t].status = 202 => th[t].clen = 0 /\ Len(th[t].sent) = 1
           /\ th[t].status # 202 => th[t].sent = <<>>

\* A POST without content-length, with invalid JSON, or with JSON that is no object.
Malformed(r) == r.len = "absent" \/ (r.len = "int" /\ JsonLoads(r.body) # "dict")

\* C7 as stated: a malformed POST request has changed neither the mapping, nor
\* a lastSeen, nor the current-context pointer, and has dispatched no event.
C7_MalformedPostMutatesNothing ==
    \A t \in Threads :
        th[t].pc = "done" /\ th[t].task \in PostTasks /\ Malformed(th[t].req[1])
        => ~th[t].mutated /\ th[t].sent = <<>>

\* C7 as amended: every step of the POST handler on a malformed request leaves
\* the mapping, every Session and the current-context pointer unchanged,
\* dispatches nothing and ends the request with 400 or 411.
C7_HandlerMutatesNothing ==
    [][\A t \in Threads :
          /\ th[t].pc \in {"handle_POST", "new_event"}
          /\ th'[t] # th[t]
          /\ th'[t].req # <<>>
          /\ Malformed(th'[t].req[1])
          => /\ sessions' = sessions /\ objs' = objs /\ current' = current
             /\ th'[t].pc = "done"
             /\ th'[t].status \in {400, 411}
             /\ th'[t].sent = <<>>
             /\ th'[t].mutated = th[t].mutated]_vars

\* A malformed POST was answered 4xx after its filter had constructed a Session.
C7_Witness ==
    \E t \in Threads :
        /\ th[t].pc = "done" /\ th[t].task = "request"
        /\ Malformed(th[t].req[1])
        /\ th[t].status \in {400, 411}
        /\ th[t].created /\ th[t].mutated
        /\ th[t].sent = <<>>

\* C8: concurrent activate calls with distinct new identifiers lose no
\* insertion: the mapping holds an entry for every identifier inserted, each
\* with a Session and Context of its own.
C8_NoLostInsertion ==
    /\ DOMAIN sessions = inserted
    /\ \A t \in Threads :
          th[t].task = "activate" /\ th[t].pc \in AfterInsert
              => th[t].value \in DOMAIN sessions
    /\ \A n \in DOMAIN sessions : objs[sessions[n]].name = n
    /\ \A n, m \in DOMAIN sessions : sessions[n] = sessions[m] => n = m

\* Two activate calls with distinct new identifiers are in flight together,
\* both past their insertion, and the mapping holds both entries.
C8_Witness ==
    \E t, u \in Threads :
        /\ t # u
        /\ th[t].pc \in AfterInsert /\ th[u].pc \in AfterInsert
        /\ th[t].created /\ th[u].created
        /\ th[t].value # th[u].value
        /\ Cardinality(DOMAIN sessions) = 2
        /\ sessions[th[t].value] # sessions[th[u].value]

\* C9: the filter of a request, its activate call and pointer update included,
\* has completed before the request's handler runs; handled one at a time, a
\* request's event goes to the context of the session its identifier names.
C9_EventGoesToOwnSession ==
    \A t \in Threads :
        th[t].task = "request" /\ th[t].pc \in {"handle_POST", "new_event", "done"}
        => /\ th[t].value \in DOMAIN sessions
           /\ th[t].obj = sessions[th[t].value]
           /\ current = th[t].obj
           /\ th[t].pc = "done" /\ th[t].req[1].len = "int"
                  /\ JsonLoads(th[t].req[1].body) = "dict"
                  => th[t].status = 202 /\ th[t].sent = <<sessions[th[t].value]>>

\* An event was delivered to the context of an older session, after a newer
\* session had been activated.
C9_Witness ==
    \E t \in Threads :
        /\ th[t].task = "request" /\ th[t].pc = "done" /\ th[t].status = 202
        /\ Len(objs) >= 2
        /\ th[t].sent = <<1>>
        /\ sessions[th[t].value] = 1

\* C10: the current-context pointer is last-writer-wins: every
\* context_activate overwrites it and every event goes to the context it
\* holds at that moment, whichever request made it current.
C10_LastWriterWins ==
    [][\A t \in Threads :
          /\ th[t].pc = "ctx_activate" /\ th'[t].pc # "ctx_activate"
                => current' = th[t].obj
          /\ th[t].pc = "new_event" /\ th'[t].pc = "done" /\ current # 0
                => th'[t].sent = <<current>> /\ th'[t].status = 202]_vars

\* A request's event was delivered to the context of the other session, whose
\* filter was the last to activate.
C10_Witness ==
    \E t \in Threads :
        /\ th[t].task = "request" /\ th[t].pc = "done" /\ th[t].status = 202
        /\ th[t].sent # <<sessions[th[t].value]>>
        /\ objs[th[t].sent[1]].name # th[t].value
        /\ \E u \in Threads : u # t /\ th[u].task = "request" /\ th[t].sent = <<th[u].obj>>

\* A cookieless request that holds the identifier generate_name returned to it.
Minted(t) ==
    /\ th[t].task = "request" /\ th[t].cookie = <<>>
    /\ th[t].pc = "set_cookie" \/ th[t].setCookie # <<>>

\* C11: two concurrent requests without a session cookie are never issued the
\* same identifier: in every interleaving the values their generate_name calls
\* returned differ, and they are never bound to one shared Session.
C11_ConcurrentMintsDiffer ==
    \A t, u \in Threads :
        t # u /\ Minted(t) /\ Minted(u)
        => /\ th[t].value # th[u].value
           /\ th[t].obj # 0 => th[t].obj # th[u].obj
           /\ th[t].pc \in AfterFilter /\ th[u].pc \in AfterFilter
                 => sessions[th[t].value] # sessions[th[u].value]

\* Two cookieless requests hold their identifiers at the same time, neither
\* of them inserted yet.
C11_Witness ==
    \A t \in Threads :
        /\ th[t].task = "request" /\ th[t].cookie = <<>>
        /\ th[t].pc = "set_cookie" /\ th[t].value \notin DOMAIN sessions

\* C12: the lastSeen of the registry entry of every identifier never
\* decreases, under any interleaving of activate calls and a clock that never
\* goes back.
C12_LastSeenNeverDecreases ==
    [][\A n \in DOMAIN sessions :
          n \in DOMAIN sessions'
          => objs'[sessions'[n]].seen >= objs[sessions[n]].seen]_vars

\* C13: the mapping is append-only in its keys: whatever filter,
\* generate_name, activate and event-handling calls are made, no step removes
\* a key that the mapping holds.
C13_KeysAppendOnly ==
    [][DOMAIN sessions \subseteq DOMAIN sessions']_vars

\* The mapping holds a minted and a client-chosen key, the second inserted
\* while the first was there, and an event has been handled since.
C13_Witness ==
    /\ \E n \in DOMAIN sessions : n \in Returned
    /\ \E n \in DOMAIN sessions : n \notin Returned
    /\ \E t \in Threads :
          th[t].task = "request" /\ th[t].pc = "done" /\ th[t].status = 202

\* C14: generate_name always ends with a result: next(names) never signals
\* exhaustion nor raises, also when the draw crosses from an exhausted stage
\* into the next one, so no call that draws a name ends by an exception of
\* the generator.
C14_GenerateNameReturns ==
    /\ ~names.dead
    /\ \A t \in Threads :
          th[t].task \in {"request", "generate_name"} /\ th[t].pc = "done"
          => ~(th[t].raised /\ th[t].req = <<>>)

\* The names the product of pools yields at positions 0 .. ProductSize - 1.
StageNames(pools) == {Join(ProductAt(pools, k)) : k \in 0..(ProductSize(pools) - 1)}

\* Every tuple of the product takes its i-th word from the i-th pool.
InPools(pools) ==
    \A k \in 0..(ProductSize(pools) - 1) : \A i \in 1..Len(pools) :
        \E j \in 1..Len(pools[i]) : ProductAt(pools, k)[i] = pools[i][j]

\* C15: within a stage the generator yields every combination of the stage's
\* factor lists exactly once before it advances, and the factor lists keep
\* their order for the whole stage: each draw yields the name at the next
\* position of the same pools, the positions yield as many different names as
\* there are combinations, and the stage changes only after the last position.
C15_StageEnumeratedOnce ==
    [][/\ names'.pools # names.pools
          => /\ Cardinality(StageNames(names'.pools)) = ProductSize(names'.pools)
             /\ InPools(names'.pools)
       /\ names.started /\ names'.nparts = names.nparts /\ names'.idx # names.idx
          => /\ names'.pools = names.pools
             /\ names'.idx = names.idx + 1
             /\ names.idx < ProductSize(names.pools)
             /\ \E t \in Threads :
                   /\ th'[t].draws = th[t].draws + 1
                   /\ th'[t].value = Join(ProductAt(names.pools, names.idx))
       /\ names.started /\ names'.nparts # names.nparts
          => names.idx = ProductSize(names.pools)
       /\ names.started /\ names'.pools # names.pools
          => names'.nparts # names.nparts]_vars

\* The generator has yielded all names of stage 0 and the first name of stage
\* 1, whose pools are in a shuffled order.
C15_Witness ==
    /\ names.started /\ StageOf(names) = 1 /\ names.idx >= 1
    /\ names.pools[1] # ModelLetters
    /\ Len(returned) >= 2

LetterWords == {letters[i] : i \in 1..Len(letters)}

ColourWords == {colours[i] : i \in 1..Len(colours)}

\* The i-th word of a name.
WordOf(v, i) == v[2 * i - 1]

NWords(v) == (Len(v) + 1) \div 2

\* The stage grows by one factor at a time and stage k has
\* NLetters ^ (k + 1) * NColours combinations.
StageSizes ==
    names.started
    => /\ Len(names.pools) = StageOf(names) + 2
       /\ ProductSize(names.pools) = NColours * NLetters ^ (StageOf(names) + 1)

\* C16 as stated: every name of stage k is k + 1 letter words followed by one
\* colour word as its last component.
C16_ColourLast ==
    /\ StageSizes
    /\ \A t \in Threads :
          th[t].pc = "gen_check"
          => LET v == th[t].value
                 n == NWords(v)
             IN  /\ n = StageOf(names) + 2
                 /\ \A i \in 1..(n - 1) : WordOf(v, i) \in LetterWords
                 /\ WordOf(v, n) \in ColourWords

\* C16, amended: each stage after stage 0 extends the factor list by one
\* letters factor, appended at the end, so every name of stage k is a letter
\* word, then the colour word, then k letter words; the colour is the second
\* component of every name and each stage has NLetters times the combinations
\* of the one before.
C16_ColourSecond ==
    /\ StageSizes
    /\ \A t \in Threads :
          th[t].pc = "gen_check"
          => LET v == th[t].value
                 n == NWords(v)
             IN  /\ n = StageOf(names) + 2
                 /\ WordOf(v, 1) \in LetterWords
                 /\ WordOf(v, 2) \in ColourWords
                 /\ \A i \in 3..n : WordOf(v, i) \in LetterWords

\* A name of stage 1 has just been drawn.
C16_Witness ==
    \E t \in Threads :
        /\ th[t].pc = "gen_check" /\ StageOf(names) = 1
        /\ NWords(th[t].value) = 3

\* C17: the filter sends a Set-Cookie header iff the request has no session
\* cookie; the header holds the value generate_name returned, with path /, and
\* that value is the one activated. A cookie's value is activated as it is,
\* with no check against the mapping, and a Session is made for it if it is
\* not yet a key.
C17_SetCookieIffNoCookie ==
    [][\A t \in Threads :
          th[t].task = "request"
          => /\ th[t].pc = "handle" /\ th'[t].pc # "handle" /\ th[t].cookie # <<>>
                => th'[t].pc = "act_check" /\ th'[t].value = th[t].cookie[1]
             /\ th[t].pc = "handle" /\ th'[t].pc # "handle" /\ th[t].cookie = <<>>
                => th'[t].pc = "gen_next"
             /\ /\ th[t].pc = "act_check" /\ th'[t].pc # "act_check"
                /\ th[t].value \notin DOMAIN sessions
                => th'[t].pc = "new_session"
             /\ th'[t].pc \in AfterFilter /\ th'[t].task = "request"
                => /\ th'[t].setCookie # <<>> <=> th'[t].cookie = <<>>
                   /\ objs'[th'[t].obj].name = th'[t].value
                   /\ th'[t].cookie = <<>>
                      => /\ th'[t].setCookie =
                               <<[value |-> th'[t].value, path |-> "/"]>>
                         /\ th'[t].value \in {returned'[i] : i \in 1..Len(returned')}
                   /\ th'[t].cookie # <<>>
                      => th'[t].value = th'[t].cookie[1] /\ th'[t].draws = 0]_vars

\* One request was given a Set-Cookie header for a minted name, a later one
\* presented a value that was no key and had a Session made for it, with no
\* header.
C17_Witness ==
    \E u \in Threads :
        /\ DOMAIN jar # {}
        /\ th[u].task = "request" /\ th[u].pc \in AfterFilter
        /\ th[u].cookie = << <<"x">> >> /\ th[u].created /\ th[u].setCookie = <<>>

\* C18: a name minted for a cookieless request is no key when that request
\* activates it: the activate that follows generate_name always constructs the
\* Session, and the request is bound to the Session it constructed, never to
\* one made by another request.
C18_MintedActivateCreates ==
    \A t \in Threads :
        Minted(t) /\ th[t].pc \in AfterInsert
        => /\ th[t].created
           /\ SessionsOf(th[t].value) = {sessions[th[t].value]}

\* C19: whenever the current-context pointer is defined, it is the context
\* of a Session that the mapping holds, under any interleaving of concurrent
\* activate calls.
C19_CurrentIsRegistered ==
    current # 0 => \E n \in DOMAIN sessions : sessions[n] = current

\* C20: every POST the handler has dealt with has got one response, with
\* status 202, 400, 411 or 500, whatever the request, also when its
\* content-length header is no decimal integer.
C20_EveryPostAnswered ==
    \A t \in Threads :
        th[t].pc = "done" /\ th[t].task \in PostTasks /\ th[t].req # <<>>
        => th[t].status \in {202, 400, 411, 500} /\ ~th[t].raised

====
